---- MODULE Spec2Model ----
(***************************************************************************)
(* A model of vyse, a read-only terminal text viewer.                      *)
(*                                                                         *)
(* buffer.rs  : Buffer { lines, path } and its queries.                    *)
(* view.rs    : View { buffer, needs_redraw, current_size,                 *)
(*              cursor_location, scroll_offset } and its handlers.         *)
(* editor.rs  : Editor { should_quit, view } and the loop of Editor::run.  *)
(* main.rs    : the optional load of the file named on the command line.   *)
(*                                                                         *)
(* A Rust String is a vector of UTF-8 bytes; a line is modelled as the     *)
(* sequence of its bytes, so that byte lengths, character indices and      *)
(* byte-range slicing are computed the way the code computes them.         *)
(***************************************************************************)
EXTENDS Integers, Sequences, FiniteSets, TLC

VARIABLES
    lines,            \* View.buffer.lines : Vec<String>, each a byte sequence
    path,             \* View.buffer.path
    needs_redraw,     \* View.needs_redraw
    current_size,     \* View.current_size : Size { width, height }
    cursor_location,  \* View.cursor_location : Location { row, col }
    scroll_offset,    \* View.scroll_offset : Location { row, col }
    overflow_checks,  \* build profile: TRUE = integer overflow panics (debug)
    panicked,         \* the thread has panicked; the process is gone
    ret,              \* value returned by the call handled last
    out,              \* terminal commands queued by the call handled last
    last,             \* the call handled last: its arguments, the cursor before it
    terminal_size,    \* the size of the terminal: what terminal::size() reports
    should_quit,      \* Editor.should_quit
    pc,               \* where main and Editor::run stand
    event             \* the event read() returned, until it is handled

vars == <<lines, path, needs_redraw, current_size, cursor_location,
          scroll_offset, overflow_checks, panicked, ret, out, last,
          terminal_size, should_quit, pc, event>>

editor_vars == <<should_quit, pc, event>>

view_vars == <<lines, path, needs_redraw, current_size, cursor_location,
               scroll_offset>>

----------------------------------------------------------------------------
(* Bounds of the model *)

MaxWidth == 2      \* terminal widths 0..MaxWidth arrive in Resize events
MaxHeight == 4     \* terminal heights 0..MaxHeight arrive in Resize events
MaxQueryRow == 5   \* rows asked of the Buffer queries
MaxQueryCol == 4   \* start columns asked of get_truncated_line
MaxQueryWidth == 3 \* widths asked of get_truncated_line

(* Machine integers *)

USIZE_MAX == 2147483647   \* usize::MAX, scaled to the integer range of the model
U16_MAX == 65535          \* u16::MAX

Min(a, b) == IF a < b THEN a ELSE b
Max(a, b) == IF a > b THEN a ELSE b

\* usize::saturating_sub / u16::saturating_sub
saturating_sub(a, b) == IF a > b THEN a - b ELSE 0

\* usize::saturating_add
saturating_add(a, b) == IF a >= USIZE_MAX - b THEN USIZE_MAX ELSE a + b

\* `x as u16`
as_u16(x) == x % (U16_MAX + 1)

----------------------------------------------------------------------------
(* Text: UTF-8 bytes *)

LF == 10
CR == 13

\* A byte that continues a multi-byte character (0b10xxxxxx).
IsContinuation(b) == b >= 128 /\ b < 192

\* Number of bytes the character led by byte b occupies; 0 for a byte that
\* cannot lead a character.
LeadLength(b) ==
    IF b < 128 THEN 1
    ELSE IF b >= 194 /\ b < 224 THEN 2
    ELSE IF b >= 224 /\ b < 240 THEN 3
    ELSE IF b >= 240 /\ b < 245 THEN 4
    ELSE 0

\* Whether the bytes from position i (1-based) on are well-formed UTF-8.
RECURSIVE ValidFrom(_, _)
ValidFrom(bytes, i) ==
    IF i > Len(bytes) THEN TRUE
    ELSE LET n == LeadLength(bytes[i]) IN
         /\ n > 0
         /\ i + n - 1 <= Len(bytes)
         /\ \A k \in 1..(n - 1) : IsContinuation(bytes[i + k])
         /\ ValidFrom(bytes, i + n)

\* str::char_indices: the byte offset (0-based) of every character of s.
char_indices(s) ==
    LET starts == {i \in 1..Len(s) : ~IsContinuation(s[i])}
        RECURSIVE Ordered(_, _)
        Ordered(i, acc) ==
            IF i > Len(s) THEN acc
            ELSE Ordered(i + 1, IF i \in starts THEN Append(acc, i - 1) ELSE acc)
    IN Ordered(1, <<>>)

\* str::is_char_boundary
is_char_boundary(s, idx) ==
    \/ idx = 0
    \/ idx = Len(s)
    \/ idx < Len(s) /\ ~IsContinuation(s[idx + 1])

\* str::lines: split at LF, the terminator removed together with a CR
\* before it; a final line without terminator counts, an empty rest does not.
RECURSIVE str_lines(_, _, _)
str_lines(content, i, cur) ==
    IF i > Len(content)
    THEN IF cur = <<>> THEN <<>> ELSE <<cur>>
    ELSE IF content[i] = LF
         THEN LET line == IF cur # <<>> /\ cur[Len(cur)] = CR
                          THEN SubSeq(cur, 1, Len(cur) - 1)
                          ELSE cur
              IN <<line>> \o str_lines(content, i + 1, <<>>)
         ELSE str_lines(content, i + 1, Append(cur, content[i]))

----------------------------------------------------------------------------
(* The files a path can name *)

NoFile == <<-1>>

\* "abc\nde\n\nf\ngh" : five lines, one empty, no final terminator
AsciiFile == <<97, 98, 99, 10, 100, 101, 10, 10, 102, 10, 103, 104>>
\* "éa\r\n€\n" : a two-byte and a three-byte character, a CR LF terminator
Utf8File == <<195, 169, 97, 13, 10, 226, 130, 172, 10>>
\* a lone 0xFF byte: not valid UTF-8
BinaryFile == <<255>>

Paths == {"ascii.txt", "utf8.txt", "empty.txt", "binary.dat", "missing.txt"}

FileSystem(p) ==
    CASE p = "ascii.txt" -> AsciiFile
      [] p = "utf8.txt" -> Utf8File
      [] p = "empty.txt" -> <<>>
      [] p = "binary.dat" -> BinaryFile
      [] OTHER -> NoFile

\* fs::read_to_string
read_to_string(p) ==
    LET bytes == FileSystem(p) IN
    IF bytes = NoFile THEN [ok |-> FALSE, err |-> "NotFound", content |-> <<>>]
    ELSE IF ~ValidFrom(bytes, 1)
         THEN [ok |-> FALSE, err |-> "InvalidData", content |-> <<>>]
         ELSE [ok |-> TRUE, err |-> "", content |-> bytes]

----------------------------------------------------------------------------
(* buffer.rs *)

EmptyFilePath == "<empty file>"

\* Buffer::from_path
from_path(p) ==
    LET content == read_to_string(p) IN
    IF ~content.ok
    THEN [ok |-> FALSE, err |-> content.err, lines |-> <<>>, path |-> p]
    ELSE [ok |-> TRUE, err |-> "", lines |-> str_lines(content.content, 1, <<>>),
          path |-> p]

\* Buffer::get_line_length: String::len is the length in bytes.
get_line_length(ls, index) ==
    IF index < Len(ls) THEN saturating_sub(Len(ls[index + 1]), 1) ELSE 0

\* Buffer::get_last_line_index
get_last_line_index(ls) == saturating_sub(Len(ls), 1)

None == [tag |-> "None", val |-> <<>>]
Some(s) == [tag |-> "Some", val |-> s]
Panic == [tag |-> "Panic", val |-> <<>>]

\* The slice with its end excluded: &line[start..end].
slice_exclusive(line, start, end) ==
    IF /\ end <= Len(line)
       /\ is_char_boundary(line, start)
       /\ is_char_boundary(line, end)
    THEN Some(SubSeq(line, start + 1, end))
    ELSE Panic

\* &line[start..=end]: panics unless both ends of the byte range lie on
\* character boundaries.
slice_inclusive(line, start, end) ==
    IF /\ end < Len(line)
       /\ is_char_boundary(line, start)
       /\ is_char_boundary(line, end + 1)
    THEN Some(SubSeq(line, start + 1, end + 1))
    ELSE Panic

\* Buffer::get_truncated_line
get_truncated_line(ls, row, col, width) ==
    IF row >= Len(ls) THEN None
    ELSE LET line == ls[row + 1]
             indices == char_indices(line)
             \* .skip(col).take(width)
             included_chars ==
                 SubSeq(indices, col + 1, Min(col + width, Len(indices)))
         IN IF included_chars = <<>> THEN Some(<<>>)
            ELSE LET start == included_chars[1]
                     rest == Tail(included_chars)
                     end == IF rest = <<>> THEN start ELSE rest[Len(rest)]
                 IN slice_inclusive(line, start, end)

----------------------------------------------------------------------------
(* view.rs: helpers *)

Location(r, c) == [row |-> r, col |-> c]
Size(w, h) == [width |-> w, height |-> h]

\* View::is_of_sufficient_size
is_of_sufficient_size(size) == size.height > 1 /\ size.width > 0

\* View::buffer_height
buffer_height(size) == saturating_sub(size.height, 1)

NavigationKeys ==
    {"Left", "Right", "Up", "Down", "PageUp", "PageDown", "Home", "End"}
KeyCodes == NavigationKeys \cup {"Char"}
KeyEventKinds == {"Press", "Release"}

\* The key events the loop delivers: a press of every code, and a release
\* of a navigation key and of another key.
KeyEvents ==
    {<<code, "Press">> : code \in KeyCodes}
        \cup {<<"Down", "Release">>, <<"Char", "Release">>}

\* move_arm with the Left arm wrapping to the start of the previous line
\* instead of its end.
move_arm_LeftWrapsToStart(ls, loc, key_code) ==
    CASE key_code = "Left" ->
           IF loc.col = 0
           THEN IF loc.row # 0
                THEN Location(saturating_sub(loc.row, 1), 0)
                ELSE loc
           ELSE Location(loc.row, loc.col - 1)
      [] key_code = "Right" ->
           IF loc.col = get_line_length(ls, loc.row)
           THEN Location(saturating_add(loc.row, 1), 0)
           ELSE Location(loc.row, saturating_add(loc.col, 1))
      [] key_code = "Up" -> Location(saturating_sub(loc.row, 1), loc.col)
      [] key_code = "Down" -> Location(saturating_add(loc.row, 1), loc.col)
      [] key_code = "PageUp" -> Location(0, 0)
      [] key_code = "PageDown" -> Location(USIZE_MAX, 0)
      [] key_code = "Home" -> Location(loc.row, 0)
      [] key_code = "End" -> Location(loc.row, USIZE_MAX)
      [] OTHER -> loc

\* View::move_cursor, the match on the key code (before clamping)
move_arm(ls, loc, key_code) ==
    CASE key_code = "Left" ->
           IF loc.col = 0
           THEN IF loc.row # 0
                THEN LET r == saturating_sub(loc.row, 1)
                     IN Location(r, get_line_length(ls, r))
                ELSE loc
           ELSE Location(loc.row, loc.col - 1)
      [] key_code = "Right" ->
           LET current_line_length == get_line_length(ls, loc.row) IN
           IF loc.col = current_line_length
           THEN Location(saturating_add(loc.row, 1), 0)
           ELSE Location(loc.row, saturating_add(loc.col, 1))
      [] key_code = "Up" -> Location(saturating_sub(loc.row, 1), loc.col)
      [] key_code = "Down" -> Location(saturating_add(loc.row, 1), loc.col)
      [] key_code = "PageUp" -> Location(0, 0)
      [] key_code = "PageDown" -> Location(USIZE_MAX, 0)
      [] key_code = "Home" -> Location(loc.row, 0)
      [] key_code = "End" -> Location(loc.row, USIZE_MAX)
      [] OTHER -> loc

\* The clamps with the column left as the match arm set it.
clamp_cursor_RowOnly(ls, loc) ==
    Location(Min(loc.row, get_last_line_index(ls)), loc.col)

\* View::move_cursor, the two clamps: the column against the line the
\* cursor is on at that moment, then the row against the last line.
clamp_cursor(ls, loc) ==
    LET current_line_length == get_line_length(ls, loc.row)
        c == Min(loc.col, current_line_length)
        last_line_index == get_last_line_index(ls)
    IN Location(Min(loc.row, last_line_index), c)

\* update_scroll with the last visible row taken one too far, the way the
\* last visible column is.
update_scroll_RowEndOneTooFar(scroll, cursor, size) ==
    LET row1 == IF scroll.row > cursor.row THEN cursor.row ELSE scroll.row
        view_end_row == saturating_add(row1, buffer_height(size))
        row2 == IF cursor.row > view_end_row
                THEN saturating_add(row1,
                                    saturating_sub(cursor.row, view_end_row))
                ELSE row1
        col1 == IF scroll.col > cursor.col THEN cursor.col ELSE scroll.col
        view_end_col == saturating_add(col1, size.width)
        col2 == IF cursor.col > view_end_col
                THEN saturating_add(col1,
                                    saturating_sub(cursor.col, view_end_col))
                ELSE col1
    IN Location(row2, col2)

\* View::update_scroll
update_scroll(scroll, cursor, size) ==
    LET row1 == IF scroll.row > cursor.row THEN cursor.row ELSE scroll.row
        view_end_row ==
            saturating_add(row1, saturating_sub(buffer_height(size), 1))
        row2 == IF cursor.row > view_end_row
                THEN saturating_add(row1,
                                    saturating_sub(cursor.row, view_end_row))
                ELSE row1
        col1 == IF scroll.col > cursor.col THEN cursor.col ELSE scroll.col
        view_end_col == saturating_add(col1, size.width)
        col2 == IF cursor.col > view_end_col
                THEN saturating_add(col1,
                                    saturating_sub(cursor.col, view_end_col))
                ELSE col1
    IN Location(row2, col2)

\* View::get_relative_cursor_position
get_relative_cursor_position(cursor, scroll) ==
    [x |-> as_u16(saturating_sub(cursor.col, scroll.col)),
     y |-> as_u16(saturating_sub(cursor.row, scroll.row))]

----------------------------------------------------------------------------
(* view.rs: what a render pass queues on the terminal *)

Ok == [tag |-> "Ok", val |-> <<>>]
Err(e) == [tag |-> e, val |-> <<>>]
Unit == [tag |-> "Unit", val |-> <<>>]

Tilde == <<126>>

\* Nothing queued: no buffer row, no status line, no cursor move.
NoPaint == [rows |-> <<>>, status |-> <<>>, cursor |-> <<>>]

\* View::render_buffer: for every row of the window, the slice fetched from
\* the buffer (a panic of the fetch included).
fetched_rows(ls, scroll, size) ==
    [i \in 1..buffer_height(size) |->
        get_truncated_line(ls, (i - 1) + scroll.row, scroll.col, size.width)]

\* The rows render_buffer has painted when it returns or panics: every row
\* before the first fetch that panics, "~" where the buffer has no such line.
painted_rows(fetched) ==
    LET bad == {i \in 1..Len(fetched) : fetched[i] = Panic}
        n == IF bad = {} THEN Len(fetched)
             ELSE (CHOOSE i \in bad : \A j \in bad : i <= j) - 1
    IN [i \in 1..n |-> IF fetched[i] = None THEN Tilde ELSE fetched[i].val]

\* Number of decimal digits of n, as format!("{}") prints it.
RECURSIVE Digits(_)
Digits(n) == IF n < 10 THEN 1 ELSE 1 + Digits(n \div 10)

\* format!("LINE {} COL {}", row + 1, col + 1).len()
location_text_len(cursor) ==
    5 + Digits(cursor.row + 1) + 5 + Digits(cursor.col + 1)

\* View::render_status_bar, `height - 1` on u16: a panic with overflow
\* checks, a wrap without.
status_row(size, checks) ==
    IF size.height = 0
    THEN IF checks THEN Panic ELSE Some(<<U16_MAX>>)
    ELSE Some(<<size.height - 1>>)

\* View::render_status_bar
status_bar(p, cursor, size, y) ==
    [y |-> y, path |-> p, line |-> cursor.row + 1, col |-> cursor.col + 1,
     x |-> saturating_sub(size.width, as_u16(location_text_len(cursor)))]

----------------------------------------------------------------------------
(* The state after construction: Editor::new builds View::default() *)

NoEvent == <<>>

\* The sizes the terminal can have when the program starts.
InitialTerminalSizes == {Size(MaxWidth, MaxHeight), Size(1, 2)}

\* Editor::new
EditorNew ==
    /\ should_quit = FALSE
    /\ event = NoEvent
    /\ terminal_size \in InitialTerminalSizes

\* A View used through its own methods, outside Editor::run.
Init ==
    /\ EditorNew
    /\ pc = "view"
    /\ lines = <<>>
    /\ path = EmptyFilePath
    /\ needs_redraw = FALSE
    /\ current_size = Size(0, 0)
    /\ cursor_location = Location(0, 0)
    /\ scroll_offset = Location(0, 0)
    /\ overflow_checks \in BOOLEAN
    /\ panicked = FALSE
    /\ ret = Unit
    /\ out = NoPaint
    /\ last = [op |-> "new", arg |-> <<>>, cursor |-> Location(0, 0)]

Call(op, arg) == [op |-> op, arg |-> arg, cursor |-> cursor_location]

----------------------------------------------------------------------------
(* view.rs: the operations *)

\* View::load with the redraw flag raised before the buffer is read.
Load_FlagBeforeRead(p) ==
    LET buffer == from_path(p) IN
    /\ ~panicked
    /\ last' = Call("load", <<p>>)
    /\ out' = NoPaint
    /\ needs_redraw' = TRUE
    /\ IF buffer.ok
       THEN /\ lines' = buffer.lines
            /\ path' = buffer.path
            /\ ret' = Ok
       ELSE /\ ret' = Err(buffer.err)
            /\ UNCHANGED <<lines, path>>
    /\ UNCHANGED <<current_size, cursor_location, scroll_offset,
                   overflow_checks, panicked>>

\* View::load with the cursor and the scroll offset put back to the origin
\* when the new buffer is stored.
Load_ResetsCursor(p) ==
    LET buffer == from_path(p) IN
    /\ ~panicked
    /\ last' = Call("load", <<p>>)
    /\ out' = NoPaint
    /\ IF buffer.ok
       THEN /\ lines' = buffer.lines
            /\ path' = buffer.path
            /\ needs_redraw' = TRUE
            /\ cursor_location' = Location(0, 0)
            /\ scroll_offset' = Location(0, 0)
            /\ ret' = Ok
       ELSE /\ ret' = Err(buffer.err)
            /\ UNCHANGED <<lines, path, needs_redraw, cursor_location,
                           scroll_offset>>
    /\ UNCHANGED <<current_size, overflow_checks, panicked>>

\* View::load
Load(p) ==
    LET buffer == from_path(p) IN
    /\ ~panicked
    /\ last' = Call("load", <<p>>)
    /\ out' = NoPaint
    /\ IF buffer.ok
       THEN /\ lines' = buffer.lines
            /\ path' = buffer.path
            /\ needs_redraw' = TRUE
            /\ ret' = Ok
       ELSE /\ ret' = Err(buffer.err)
            /\ UNCHANGED <<lines, path, needs_redraw>>
    /\ UNCHANGED <<current_size, cursor_location, scroll_offset,
                   overflow_checks, panicked>>

\* View::render: whether the pass returns before painting.
render_skips(redraw, size) == ~redraw /\ ~is_of_sufficient_size(size)

\* View::render
Render ==
    LET fetched == fetched_rows(lines, scroll_offset, current_size)
        rows == painted_rows(fetched)
        y == status_row(current_size, overflow_checks)
    IN
    /\ ~panicked
    \* "again": this pass follows another pass with no event in between
    /\ last' = Call("render", IF last.op = "render" THEN <<"again">>
                                                     ELSE <<"first">>)
    /\ UNCHANGED <<lines, path, current_size, cursor_location, scroll_offset,
                   overflow_checks>>
    /\ IF render_skips(needs_redraw, current_size)
       THEN /\ out' = NoPaint
            /\ ret' = Ok
            /\ UNCHANGED <<needs_redraw, panicked>>
       ELSE IF Len(rows) < Len(fetched) \/ y = Panic
       THEN \* render_buffer or render_status_bar panics
            /\ out' = [rows |-> rows, status |-> <<>>, cursor |-> <<>>]
            /\ ret' = Panic
            /\ panicked' = TRUE
            /\ UNCHANGED needs_redraw
       ELSE /\ out' = [rows |-> rows,
                       status |-> <<status_bar(path, cursor_location,
                                               current_size, y.val[1])>>,
                       cursor |-> <<get_relative_cursor_position(
                                       cursor_location, scroll_offset)>>]
            /\ ret' = Ok
            /\ needs_redraw' = FALSE
            /\ UNCHANGED panicked

\* View::handle_resize_event
HandleResizeEvent(width, height) ==
    /\ ~panicked
    /\ last' = Call("resize", <<width, height>>)
    /\ current_size' = Size(width, height)
    /\ needs_redraw' = TRUE
    /\ ret' = Unit
    /\ out' = NoPaint
    /\ UNCHANGED <<lines, path, cursor_location, scroll_offset,
                   overflow_checks, panicked>>

\* View::move_cursor raising the redraw flag only when the cursor moved.
move_cursor_FlagOnlyOnChange(key_code) ==
    LET moved == clamp_cursor(lines, move_arm(lines, cursor_location, key_code))
    IN
    /\ cursor_location' = moved
    /\ scroll_offset' = update_scroll(scroll_offset, moved, current_size)
    /\ needs_redraw' = (needs_redraw \/ moved # cursor_location)
    /\ UNCHANGED <<lines, path, current_size>>

\* View::move_cursor
move_cursor(key_code) ==
    LET moved == clamp_cursor(lines, move_arm(lines, cursor_location, key_code))
    IN
    /\ cursor_location' = moved
    /\ scroll_offset' = update_scroll(scroll_offset, moved, current_size)
    /\ needs_redraw' = TRUE
    /\ UNCHANGED <<lines, path, current_size>>

\* View::handle_key_event
HandleKeyEvent(code, kind) ==
    /\ ~panicked
    /\ last' = Call("key", <<code, kind>>)
    /\ ret' = Unit
    /\ out' = NoPaint
    /\ IF kind = "Press" /\ code \in NavigationKeys
       THEN move_cursor(code)
       ELSE UNCHANGED view_vars
    /\ UNCHANGED <<overflow_checks, panicked>>

\* View::handle_event, any event that is neither a key nor a resize
HandleOtherEvent ==
    /\ ~panicked
    /\ last' = Call("other", <<>>)
    /\ ret' = Unit
    /\ out' = NoPaint
    /\ UNCHANGED view_vars
    /\ UNCHANGED <<overflow_checks, panicked>>

\* A resize notification tells the size the terminal has taken.
Resized(w, h) == terminal_size' = Size(w, h)

\* The methods of a View, called in any order.
CallLoad(p) == Load(p) /\ UNCHANGED <<terminal_size, editor_vars>>

CallRender == Render /\ UNCHANGED <<terminal_size, editor_vars>>

ResizeEvent(w, h) ==
    HandleResizeEvent(w, h) /\ Resized(w, h) /\ UNCHANGED editor_vars

KeyEvent(code, kind) ==
    HandleKeyEvent(code, kind) /\ UNCHANGED <<terminal_size, editor_vars>>

OtherEvent == HandleOtherEvent /\ UNCHANGED <<terminal_size, editor_vars>>

Next ==
    \/ \E p \in Paths : CallLoad(p)
    \/ CallRender
    \/ \E w \in 0..MaxWidth, h \in 0..MaxHeight : ResizeEvent(w, h)
    \/ \E e \in KeyEvents : KeyEvent(e[1], e[2])
    \/ OtherEvent

Spec == Init /\ [][Next]_vars

----------------------------------------------------------------------------
(* buffer.rs: the queries, asked of any buffer a load has produced *)

\* Buffer::from_path, called on its own
BufferFromPath(p) ==
    LET buffer == from_path(p) IN
    /\ ~panicked
    /\ last' = Call("from_path", <<p>>)
    /\ IF buffer.ok
       THEN /\ lines' = buffer.lines
            /\ path' = buffer.path
            /\ ret' = Ok
       ELSE /\ ret' = Err(buffer.err)
            /\ UNCHANGED <<lines, path>>
    /\ UNCHANGED <<needs_redraw, current_size, cursor_location, scroll_offset,
                   overflow_checks, panicked, out, terminal_size, editor_vars>>

\* A call of Buffer::get_line_length
CallGetLineLength(index) ==
    /\ ~panicked
    /\ last' = Call("get_line_length", <<index>>)
    /\ ret' = Some(<<get_line_length(lines, index)>>)
    /\ UNCHANGED <<view_vars, overflow_checks, panicked, out, terminal_size,
                   editor_vars>>

\* A call of Buffer::get_truncated_line
CallGetTruncatedLine(row, col, width) ==
    LET r == get_truncated_line(lines, row, col, width) IN
    /\ ~panicked
    /\ last' = Call("get_truncated_line", <<row, col, width>>)
    /\ ret' = r
    /\ panicked' = (r = Panic)
    /\ UNCHANGED <<view_vars, overflow_checks, out, terminal_size, editor_vars>>

BufferNext ==
    \/ \E p \in Paths : BufferFromPath(p)
    \/ \E index \in 0..MaxQueryRow : CallGetLineLength(index)
    \/ \E row \in 0..MaxQueryRow, col \in 0..MaxQueryCol,
          width \in 0..MaxQueryWidth : CallGetTruncatedLine(row, col, width)

BufferSpec == Init /\ [][BufferNext]_vars

----------------------------------------------------------------------------
(* editor.rs and main.rs: the program *)

\* What Editor::render queues once should_quit is set: the screen cleared,
\* the cursor at the origin, "Goodbye.\r\n" printed.
GoodbyeText == <<71, 111, 111, 100, 98, 121, 101, 46, 13, 10>>
Goodbye ==
    [rows |-> <<GoodbyeText>>, status |-> <<>>, cursor |-> <<[x |-> 0, y |-> 0]>>]

\* KeyCode::Char('q') with KeyModifiers::CONTROL
CtrlQ == "CtrlQ"

\* The events read() can return: the key events, a press and a release of
\* Ctrl-Q, a resize to any size, and an event of another kind.
Events ==
    {<<"key", e[1], e[2]>> : e \in KeyEvents}
        \cup {<<"key", CtrlQ, "Press">>, <<"key", CtrlQ, "Release">>}
        \cup {<<"resize", w, h>> : w \in 0..MaxWidth, h \in 0..MaxHeight}
        \cup {<<"other">>}

\* Editor::handle_event, the pattern of the quit request
IsQuitRequest(e) == e = <<"key", CtrlQ, "Press">>

\* The program starts: Editor::new.
EditorInit ==
    /\ lines = <<>>
    /\ path = EmptyFilePath
    /\ needs_redraw = FALSE
    /\ current_size = Size(0, 0)
    /\ cursor_location = Location(0, 0)
    /\ scroll_offset = Location(0, 0)
    /\ overflow_checks \in BOOLEAN
    /\ panicked = FALSE
    /\ ret = Unit
    /\ out = NoPaint
    /\ last = [op |-> "new", arg |-> <<>>, cursor |-> Location(0, 0)]
    /\ EditorNew
    /\ pc = "main"

\* main, with a path on the command line: the load, whose error ends the
\* program before Editor::run.
MainLoad(p) ==
    /\ pc = "main"
    /\ Load(p)
    /\ pc' = IF from_path(p).ok THEN "render" ELSE "failed"
    /\ UNCHANGED <<terminal_size, should_quit, event>>

\* main, without a path
MainNoPath ==
    /\ pc = "main"
    /\ pc' = "render"
    /\ UNCHANGED <<view_vars, overflow_checks, panicked, ret, out, last,
                   terminal_size, should_quit, event>>

\* Editor::render without the branch on should_quit.
EditorRender_IgnoresQuit ==
    /\ pc = "render"
    /\ Render
    /\ pc' = "check_quit"
    /\ UNCHANGED <<terminal_size, should_quit, event>>

\* Editor::render
EditorRender ==
    /\ pc = "render"
    /\ IF should_quit
       THEN /\ ~panicked
            /\ last' = Call("goodbye", <<>>)
            /\ out' = Goodbye
            /\ ret' = Ok
            /\ UNCHANGED <<view_vars, overflow_checks, panicked>>
       ELSE Render
    /\ pc' = "check_quit"
    /\ UNCHANGED <<terminal_size, should_quit, event>>

\* Editor::run: `if self.should_quit { break; }`, then terminal::terminate
CheckQuit ==
    /\ pc = "check_quit"
    /\ ~panicked
    /\ pc' = IF should_quit THEN "done" ELSE "read"
    /\ UNCHANGED <<view_vars, overflow_checks, panicked, ret, out, last,
                   terminal_size, should_quit, event>>

\* Editor::run: `let event = read()?`; a resize event is the terminal
\* telling its new size.
ReadEvent(e) ==
    /\ pc = "read"
    /\ ~panicked
    /\ event' = e
    /\ terminal_size' = IF e[1] = "resize" THEN Size(e[2], e[3])
                                           ELSE terminal_size
    /\ pc' = "handle"
    /\ UNCHANGED <<view_vars, overflow_checks, panicked, ret, out, last,
                   should_quit>>

\* Editor::handle_event
EditorHandleEvent ==
    /\ pc = "handle"
    /\ IF IsQuitRequest(event)
       THEN /\ ~panicked
            /\ should_quit' = TRUE
            /\ last' = Call("quit", <<>>)
            /\ ret' = Unit
            /\ out' = NoPaint
            /\ UNCHANGED <<view_vars, overflow_checks, panicked>>
       ELSE /\ CASE event[1] = "key" -> HandleKeyEvent(event[2], event[3])
                 [] event[1] = "resize" -> HandleResizeEvent(event[2], event[3])
                 [] OTHER -> HandleOtherEvent
            /\ UNCHANGED should_quit
    /\ event' = NoEvent
    /\ pc' = "render"
    /\ UNCHANGED terminal_size

EditorNext ==
    \/ \E p \in Paths : MainLoad(p)
    \/ MainNoPath
    \/ EditorRender
    \/ CheckQuit
    \/ \E e \in Events : ReadEvent(e)
    \/ EditorHandleEvent

EditorSpec == EditorInit /\ [][EditorNext]_vars

\* The thread runs on: every step but the blocking read is taken once it
\* can be.
EditorFairSpec ==
    /\ EditorSpec
    /\ WF_vars(EditorRender)
    /\ WF_vars(CheckQuit)
    /\ WF_vars(EditorHandleEvent)

----------------------------------------------------------------------------
(* Vocabulary of the properties *)

\* The cursor is on a line of the document (row 0 when it has none), at a
\* column the line has.
CursorClamped(ls, loc) ==
    /\ loc.row <= Max(Len(ls) - 1, 0)
    /\ loc.col <= get_line_length(ls, loc.row)

\* The end of the last line: where Right has nowhere to go.
AtDocumentEnd(ls, loc) ==
    /\ loc.row = get_last_line_index(ls)
    /\ loc.col = get_line_length(ls, loc.row)

\* The cursor lies in the window of usable_height rows and width columns
\* whose top-left cell is the scroll offset.
RowVisible(cursor, scroll, size) ==
    /\ scroll.row <= cursor.row
    /\ cursor.row < scroll.row + buffer_height(size)

ColVisible(cursor, scroll, size) ==
    /\ scroll.col <= cursor.col
    /\ cursor.col < scroll.col + size.width

HasViewport(size) == buffer_height(size) > 0 /\ size.width > 0

Pressed(l, code) == l.op = "key" /\ l.arg = <<code, "Press">>

----------------------------------------------------------------------------
(* C1 *)

\* C1: after every Move, Resize and successful Load event of a View, the
\* cursor row is at most max(line_count - 1, 0) and the cursor column is at
\* most line_length(cursor row), both taken in the document current after
\* the event.
C1_ClampingInvariant ==
    (last.op \in {"key", "resize", "load"} /\ ~panicked)
        => CursorClamped(lines, cursor_location)

----------------------------------------------------------------------------
(* C2 *)

\* C2: in every state reached by Move, Resize, Load and Render events in
\* which usable_height > 0 and width > 0, the cursor lies inside the window:
\* scroll.row <= cursor.row < scroll.row + usable_height and
\* scroll.col <= cursor.col < scroll.col + width.
C2_VisibilityInvariant ==
    HasViewport(current_size)
        => /\ RowVisible(cursor_location, scroll_offset, current_size)
           /\ ColVisible(cursor_location, scroll_offset, current_size)

----------------------------------------------------------------------------
(* C3 *)

\* C3: from a clamped cursor position that is not the end of the last line,
\* a press of Right followed by a press of Left leaves the cursor where it
\* was before the Right; from a clamped position other than (0,0), a press
\* of Left followed by a press of Right leaves it where it was before the
\* Left. This includes the wraps across line ends.
C3_LeftRightInverse ==
    [][ /\ ( /\ Pressed(last, "Right")
             /\ Pressed(last', "Left")
             /\ CursorClamped(lines, last.cursor)
             /\ ~AtDocumentEnd(lines, last.cursor) )
            => cursor_location' = last.cursor
        /\ ( /\ Pressed(last, "Left")
             /\ Pressed(last', "Right")
             /\ CursorClamped(lines, last.cursor)
             /\ last.cursor # Location(0, 0) )
            => cursor_location' = last.cursor ]_vars

\* A Left has just wrapped from the start of a line to the end of the line
\* above, which is not empty: the cursor a Right had left there came back.
C3_Witness ==
    /\ Pressed(last, "Left")
    /\ last.cursor.col = 0
    /\ last.cursor.row = cursor_location.row + 1
    /\ last.cursor.row < Len(lines)
    /\ cursor_location.col = get_line_length(lines, cursor_location.row)
    /\ cursor_location.col > 0

----------------------------------------------------------------------------
(* C4 *)

\* C4: when Render is called twice with no event between the two calls, the
\* second call paints nothing: no buffer row, no status line, no cursor
\* move.
C4_SecondRenderPaintsNothing ==
    (last.op = "render" /\ last.arg = <<"again">> /\ ~panicked)
        => out = NoPaint

----------------------------------------------------------------------------
(* C5 *)

\* C5: a Load whose source cannot be read returns the I/O error and leaves
\* the document, its label, the cursor, the scroll offset, the terminal
\* dimensions and the redraw flag as they were.
C5_FailedLoadChangesNothing ==
    [][ (last'.op = "load" /\ ~read_to_string(last'.arg[1]).ok)
            => /\ ret' = Err(read_to_string(last'.arg[1]).err)
               /\ UNCHANGED view_vars ]_vars

\* A Load has failed in a View that holds a document, with the cursor and
\* the scroll offset away from the origin and the redraw flag clear.
C5_Witness ==
    /\ last.op = "load"
    /\ ret = Err("NotFound")
    /\ lines # <<>>
    /\ cursor_location.row > 0
    /\ scroll_offset.row > 0
    /\ ~needs_redraw

----------------------------------------------------------------------------
(* C6 *)

\* C6: Move, Resize and Render never fail: whatever the terminal size, the
\* stored initial size included, none of them panics and none computes a
\* wrapped unsigned value (the status line is drawn on a row of the window).
C6_MoveResizeRenderTotal ==
    /\ ~panicked
    /\ \A i \in 1..Len(out.status) : out.status[i].y < current_size.height

----------------------------------------------------------------------------
(* C7 *)

\* C7: after a Resize followed by a Render, with the new usable_height > 0
\* and width > 0, the scroll offset is such that the cursor lies inside the
\* window of the new dimensions.
C7_ResizeThenRenderShowsCursor ==
    [][ ( /\ last.op = "resize"
          /\ last'.op = "render"
          /\ ~panicked'
          /\ HasViewport(current_size') )
            => /\ RowVisible(cursor_location', scroll_offset', current_size')
               /\ ColVisible(cursor_location', scroll_offset', current_size')
      ]_vars

----------------------------------------------------------------------------
(* C8, C9, C10: the Buffer queries *)

IsAsciiDocument(ls) ==
    \A i \in 1..Len(ls) : \A k \in 1..Len(ls[i]) : ls[i][k] < 128

\* The characters of a line, each as the bytes that encode it.
Characters(line) ==
    LET idx == char_indices(line) IN
    [k \in 1..Len(idx) |->
        SubSeq(line, idx[k] + 1,
               IF k < Len(idx) THEN idx[k + 1] ELSE Len(line))]

RECURSIVE Concat(_)
Concat(seqs) == IF seqs = <<>> THEN <<>> ELSE Head(seqs) \o Concat(Tail(seqs))

\* The characters at indices [c, min(c + w, character count)) of a line.
CharacterRange(line, c, w) ==
    LET chars == Characters(line) IN
    Concat(SubSeq(chars, c + 1, Min(c + w, Len(chars))))

\* C8: in a document of ASCII lines, slice(row, c, w) is None exactly when
\* row >= line_count, and otherwise is the characters at indices
\* [c, min(c + w, char_count)) of the line: the empty string when
\* c >= char_count or w = 0.
C8_AsciiSlice ==
    (last.op = "get_truncated_line" /\ IsAsciiDocument(lines))
        => LET row == last.arg[1]
               c == last.arg[2]
               w == last.arg[3]
           IN IF row >= Len(lines)
              THEN ret = None
              ELSE ret = Some(SubSeq(lines[row + 1], c + 1,
                                     Min(c + w, Len(lines[row + 1]))))

\* A slice of an ASCII line that starts inside the line and is cut short by
\* the end of the line.
C8_Witness ==
    /\ last.op = "get_truncated_line"
    /\ IsAsciiDocument(lines)
    /\ last.arg[1] < Len(lines)
    /\ last.arg[2] > 0
    /\ ret.tag = "Some"
    /\ ret.val # <<>>
    /\ Len(ret.val) < last.arg[3]

\* C9: whatever characters a line holds, slice(row, start_col, width) does
\* not fail and returns the whole characters at character indices
\* [start_col, start_col + width), fewer if the line is shorter.
C9_SliceKeepsCharactersWhole ==
    last.op = "get_truncated_line"
        => /\ ret # Panic
           /\ last.arg[1] < Len(lines)
                => ret = Some(CharacterRange(lines[last.arg[1] + 1],
                                             last.arg[2], last.arg[3]))

\* C10: line_length(row) is max(character_count - 1, 0) of the line at row
\* for every existing row, and 0 for every other row.
C10_LineLengthCountsCharacters ==
    last.op = "get_line_length"
        => LET index == last.arg[1] IN
           ret = Some(<<IF index < Len(lines)
                        THEN Max(Len(Characters(lines[index + 1])) - 1, 0)
                        ELSE 0>>)

----------------------------------------------------------------------------
(* C11 *)

NavigationPressed(l) == l.op = "key" /\ l.arg[2] = "Press" /\ l.arg[1] \in NavigationKeys

\* C11: from a clamped state, PageDown puts the cursor at
\* (max(line_count - 1, 0), 0), End at (row, line_length(row)) with the
\* row unchanged, Home at (row, 0) and PageUp at (0, 0): what asking the
\* bounds directly would give.
C11_MaxThenClampIsDirectBound ==
    CursorClamped(lines, last.cursor)
        => /\ Pressed(last, "PageDown")
                => cursor_location = Location(Max(Len(lines) - 1, 0), 0)
           /\ Pressed(last, "End")
                => cursor_location =
                       Location(last.cursor.row,
                                get_line_length(lines, last.cursor.row))
           /\ Pressed(last, "Home")
                => cursor_location = Location(last.cursor.row, 0)
           /\ Pressed(last, "PageUp")
                => cursor_location = Location(0, 0)

\* End has been pressed at the start of a line of several characters that
\* is not the last one: the column went from 0 to the line's length.
C11_Witness ==
    /\ Pressed(last, "End")
    /\ CursorClamped(lines, last.cursor)
    /\ last.cursor.col = 0
    /\ last.cursor.row + 1 < Len(lines)
    /\ cursor_location.col > 0

----------------------------------------------------------------------------
(* C12 *)

\* C12: right after every Move handled with a stored width > 0, the cursor
\* column is inside the horizontal window:
\* scroll.col <= cursor.col < scroll.col + width.
C12_ColumnInsideWindowAfterMove ==
    (NavigationPressed(last) /\ current_size.width > 0)
        => ColVisible(cursor_location, scroll_offset, current_size)

----------------------------------------------------------------------------
(* C13 *)

\* C13: a Move handled with usable_height h >= 1 leaves scroll.row as it
\* was if the new cursor row is inside the old window
\* [scroll.row, scroll.row + h - 1], sets it to the cursor row if the cursor
\* is above the window, and to cursor.row - (h - 1) if it is below.
C13_MinimalRowScroll ==
    [][ (NavigationPressed(last') /\ buffer_height(current_size) >= 1)
            => LET h == buffer_height(current_size)
                   old == scroll_offset.row
                   row == cursor_location'.row
               IN scroll_offset'.row =
                      IF row < old THEN row
                      ELSE IF row > old + h - 1 THEN row - (h - 1)
                      ELSE old ]_vars

\* The scenario of five lines and a window of three rows: PageDown from
\* (2,0) has put the cursor on row 4 and the first visible row at 2.
C13_Witness ==
    /\ Pressed(last, "PageDown")
    /\ Len(lines) = 5
    /\ buffer_height(current_size) = 3
    /\ last.cursor = Location(2, 0)
    /\ cursor_location = Location(4, 0)
    /\ scroll_offset.row = 2

----------------------------------------------------------------------------
(* C14 *)

\* C14: Left pressed at (0,0) leaves the cursor at (0,0), and Right pressed
\* at the end of the last line (row = last_line_index,
\* col = line_length(row)) leaves the cursor where it was.
C14_BlockedMoveKeepsCursor ==
    /\ (Pressed(last, "Left") /\ last.cursor = Location(0, 0))
            => cursor_location = Location(0, 0)
    /\ ( /\ Pressed(last, "Right")
         /\ CursorClamped(lines, last.cursor)
         /\ AtDocumentEnd(lines, last.cursor) )
            => cursor_location = last.cursor

----------------------------------------------------------------------------
(* C15 *)

\* A whole frame: every row of the window, the status line and the cursor.
FullPaint(o, size) ==
    /\ Len(o.rows) = buffer_height(size)
    /\ o.status # <<>>
    /\ o.cursor # <<>>

\* C15: a Render called with the redraw flag set and stored dimensions too
\* small (height <= 1 or width = 0) paints nothing and leaves the flag set;
\* the flag goes from set to clear only in a Render that painted every row,
\* the status line and the cursor.
C15_TooSmallRenderKeepsFlag ==
    [][ /\ ( /\ last'.op = "render"
             /\ needs_redraw
             /\ ~is_of_sufficient_size(current_size) )
            => (out' = NoPaint /\ needs_redraw')
        /\ (needs_redraw /\ ~needs_redraw')
            => (last'.op = "render" /\ FullPaint(out', current_size)) ]_vars

----------------------------------------------------------------------------
(* C17 *)

\* C17: a Load that succeeds stores the lines and the label of the file,
\* sets the redraw flag, and leaves the cursor, the scroll offset and the
\* terminal dimensions as they were.
C17_LoadKeepsPosition ==
    [][ (last'.op = "load" /\ read_to_string(last'.arg[1]).ok)
            => /\ lines' = str_lines(FileSystem(last'.arg[1]), 1, <<>>)
               /\ path' = last'.arg[1]
               /\ needs_redraw'
               /\ ret' = Ok
               /\ UNCHANGED <<cursor_location, scroll_offset, current_size>>
      ]_vars

\* A file has been loaded over a longer document: the cursor and the scroll
\* offset are still on the row they were on, past the new last line.
C17_Witness ==
    /\ last.op = "load"
    /\ ret = Ok
    /\ path = "utf8.txt"
    /\ cursor_location.row >= Len(lines)
    /\ scroll_offset.row > 0
    /\ cursor_location = last.cursor

----------------------------------------------------------------------------
(* C18 *)

\* C18: every successful Load, every Resize and every press of a
\* navigation key leaves the redraw flag set, also when the cursor did not
\* move; the flag goes from set to clear only in a Render that painted a
\* frame; a key event that is not a press, or whose code is no navigation
\* key, changes nothing of the View.
C18_RedrawFlagLifecycle ==
    [][ /\ ( \/ last'.op = "load" /\ ret' = Ok
             \/ last'.op = "resize"
             \/ NavigationPressed(last') )
            => needs_redraw'
        /\ (needs_redraw /\ ~needs_redraw')
            => (last'.op = "render" /\ FullPaint(out', current_size))
        /\ (last'.op = "key" /\ ~NavigationPressed(last'))
            => UNCHANGED view_vars ]_vars

\* Left has been pressed at (0,0) right after a frame was painted: the
\* cursor has not moved and the flag is set.
C18_Witness ==
    /\ Pressed(last, "Left")
    /\ last.cursor = Location(0, 0)
    /\ cursor_location = Location(0, 0)
    /\ needs_redraw
    /\ lines # <<>>

----------------------------------------------------------------------------
(* C20 *)

\* C20: after Up or Down pressed in a clamped state the column is
\* min(old column, line_length(new row)); Down on the last line and Up on
\* the first line leave the cursor where it was.
C20_VerticalMoveClampsColumn ==
    ( /\ (Pressed(last, "Up") \/ Pressed(last, "Down"))
      /\ CursorClamped(lines, last.cursor) )
        => /\ cursor_location.col =
                  Min(last.cursor.col,
                      get_line_length(lines, cursor_location.row))
           /\ (Pressed(last, "Up") /\ last.cursor.row = 0)
                => cursor_location = last.cursor
           /\ ( /\ Pressed(last, "Down")
                /\ last.cursor.row = get_last_line_index(lines) )
                => cursor_location = last.cursor

----------------------------------------------------------------------------
(* C16 *)

\* C16: when a render pass of the loop has just run, the first one
\* included, the stored width and height are those of the terminal.
C16_RenderRefreshesSize ==
    (pc = "check_quit" /\ ~panicked) => current_size = terminal_size

----------------------------------------------------------------------------
(* C19 *)

\* C19: the loop goes render, quit test, one read, the handling of the
\* event read, and render again; once a Ctrl-Q press has been handled one
\* more render pass runs, which queues the farewell and leaves the View
\* alone, no event is read or handled any more, and the loop ends.
C19_LoopAlternatesAndQuits ==
    /\ [][ /\ pc = "render" => pc' = "check_quit"
           /\ pc = "check_quit"
                => pc' = (IF should_quit THEN "done" ELSE "read")
           /\ pc = "read"
                => /\ pc' = "handle"
                   /\ event' # NoEvent
                   /\ UNCHANGED <<view_vars, should_quit>>
           /\ pc = "handle"
                => /\ pc' = "render"
                   /\ event' = NoEvent
                   /\ should_quit' = IsQuitRequest(event)
           /\ pc \in {"done", "failed"} => FALSE
           /\ should_quit
                => /\ should_quit'
                   /\ event' = NoEvent
                   /\ UNCHANGED view_vars
                   /\ pc = "render" => out' = Goodbye ]_vars
    /\ should_quit ~> (pc = "done")

\* The loop has ended after a quit request, with a file loaded and the
\* cursor moved: the last pass queued the farewell.
C19_Witness ==
    /\ pc = "done"
    /\ should_quit
    /\ out = Goodbye
    /\ lines # <<>>
    /\ cursor_location.row > 0

====
